---- MODULE Spec2Model ----
(***************************************************************************)
(* Model of backend/server.py: the tender CRUD handlers over the MongoDB   *)
(* collection db.tenders.                                                  *)
(*                                                                         *)
(* Representation of Python / JSON values:                                 *)
(*   - an optional value (JSON null, Python None) is <<>>, a present value *)
(*     v is <<v>>;                                                         *)
(*   - a JSON body is a function whose DOMAIN is the set of keys present;  *)
(*   - an ISO-8601 string is the sequence of its numeric segments:         *)
(*     "2024-01-15" is <<2024, 1, 15>>, "2024-01-15T10:00:00" is           *)
(*     <<2024, 1, 15, 10, 0, 0>> and "2024-01-15T10:00:00.000250" is       *)
(*     <<2024, 1, 15, 10, 0, 0, 250>>;                                     *)
(*   - a datetime.date is a record [year, month, day], a datetime.datetime *)
(*     of a payload a record [year, ..., microsecond];                     *)
(*   - a reading of the server clock is [ms, us]: whole milliseconds and   *)
(*     the microseconds within the millisecond;                            *)
(*   - a BSON UTC datetime is an integer count of milliseconds.            *)
(***************************************************************************)
EXTENDS Integers, Sequences, FiniteSets, Bags, TLC

\* ------------------------------------------------------------------ bounds
\* number of create_tender calls that insert a record
MaxCreates == 2
\* number of update_tender calls between their update_one and their find_one
MaxReqs == 2
\* the server clock runs over milliseconds 0..MaxMs
MaxMs == 1

\* ------------------------------------------------------------------ enums
TenderStatus ==
    {"Offer", "Round 1", "Round 2", "Round 3", "Round 4", "BAFO",
     "Contract Signed", "Won", "Lost"}

PriorityLevel == {"High", "Medium", "Low"}

\* to_list(1000)
ListCap == 1000

\* ------------------------------------------------------------------ helpers
None == <<>>

Some(v) == <<v>>

\* dict.update / {**a, **b} / the effect of $set on a document
Merge(a, b) == [k \in DOMAIN a \cup DOMAIN b |-> IF k \in DOMAIN b THEN b[k] ELSE a[k]]

Take(s, n) == IF Len(s) <= n THEN s ELSE SubSeq(s, 1, n)

Range(s) == {s[i] : i \in DOMAIN s}

\* ------------------------------------------------------------------ dates
IsLeap(y) == (y % 4 = 0 /\ y % 100 # 0) \/ y % 400 = 0

DaysInMonth(y, m) ==
    IF m = 2 THEN (IF IsLeap(y) THEN 29 ELSE 28)
    ELSE IF m \in {4, 6, 9, 11} THEN 30 ELSE 31

ValidYMD(y, m, d) == y \in 1..9999 /\ m \in 1..12 /\ d \in 1..DaysInMonth(y, m)

\* date.isoformat(): "YYYY-MM-DD"
DateIsoformat(d) == <<d.year, d.month, d.day>>

\* datetime.isoformat(): the fraction is printed only when microsecond # 0
DatetimeIsoformat(t) ==
    <<t.year, t.month, t.day, t.hour, t.minute, t.second>>
        \o (IF t.microsecond = 0 THEN <<>> ELSE <<t.microsecond>>)

\* the strings datetime.fromisoformat accepts
IsIsoDatetime(s) ==
    /\ Len(s) \in {3, 6, 7}
    /\ ValidYMD(s[1], s[2], s[3])
    /\ Len(s) >= 6 => (s[4] \in 0..23 /\ s[5] \in 0..59 /\ s[6] \in 0..59)
    /\ Len(s) = 7 => s[7] \in 0..999999

\* datetime.fromisoformat(s): a date-only string is midnight of that day
DatetimeFromisoformat(s) ==
    [year |-> s[1], month |-> s[2], day |-> s[3],
     hour |-> IF Len(s) >= 6 THEN s[4] ELSE 0,
     minute |-> IF Len(s) >= 6 THEN s[5] ELSE 0,
     second |-> IF Len(s) >= 6 THEN s[6] ELSE 0,
     microsecond |-> IF Len(s) = 7 THEN s[7] ELSE 0]

\* datetime.date()
DateOf(t) == [year |-> t.year, month |-> t.month, day |-> t.day]

\* pydantic's validation of a `date` field given a string
IsIsoDate(s) == Len(s) = 3 /\ ValidYMD(s[1], s[2], s[3])

ParseDate(s) == [year |-> s[1], month |-> s[2], day |-> s[3]]

\* ------------------------------------------------------------------ clock
\* the microseconds within a millisecond at which the clock is read
SubMs == {0, 500}

Times == [ms : 0..MaxMs, us : SubMs]

TimeLeq(a, b) == a.ms < b.ms \/ (a.ms = b.ms /\ a.us <= b.us)

\* BSON stores a datetime as milliseconds since the epoch
BsonEncodeDatetime(t) == t.ms

\* and decodes it to a datetime whose microsecond is a whole millisecond
BsonDecodeDatetime(m) == [ms |-> m, us |-> 0]

\* ------------------------------------------------------------------ models
StrFields == {"item", "customer", "tender_name", "assigned_sales_rep"}

DateFields == {"start_date", "expiry_date"}

\* the fields of TenderCreate and of TenderUpdate
PayloadFields ==
    StrFields \cup DateFields \cup {"status", "due_date", "deal_value", "priority"}

\* FieldValid with status and priority declared str instead of the enums
FieldValidNoEnum(f, v) ==
    IF f \in DateFields THEN IsIsoDate(v)
    ELSE IF f = "due_date" THEN Len(v) \in {6, 7} /\ IsIsoDatetime(v)
    ELSE TRUE

\* pydantic's check of one JSON value against the field's type
FieldValid(f, v) ==
    IF f = "status" THEN v \in TenderStatus
    ELSE IF f = "priority" THEN v \in PriorityLevel
    ELSE IF f \in DateFields THEN IsIsoDate(v)
    ELSE IF f = "due_date" THEN Len(v) \in {6, 7} /\ IsIsoDatetime(v)
    ELSE TRUE

\* pydantic's conversion of one JSON value to the field's type
ParseField(f, v) ==
    IF f \in DateFields THEN ParseDate(v)
    ELSE IF f = "due_date" THEN DatetimeFromisoformat(v)
    ELSE v

\* the .isoformat() calls on the three date fields
IsoField(f, v) ==
    IF f \in DateFields THEN DateIsoformat(v)
    ELSE IF f = "due_date" THEN DatetimeIsoformat(v)
    ELSE v

\* the fromisoformat calls made on a document read from the store
FromIsoField(f, v) ==
    IF f \in DateFields THEN DateOf(DatetimeFromisoformat(v))
    ELSE IF f = "due_date" THEN DatetimeFromisoformat(v)
    ELSE v

\* TenderCreate accepts the body: every field but status is required, none
\* may be null, unknown keys are ignored
TenderCreateValid(raw) ==
    /\ \A f \in PayloadFields \ {"status"} :
          f \in DOMAIN raw /\ raw[f] # None /\ FieldValid(f, raw[f][1])
    /\ "status" \in DOMAIN raw =>
          raw["status"] # None /\ FieldValid("status", raw["status"][1])

\* TenderCreate(**raw).dict()
TenderCreate(raw) ==
    [f \in PayloadFields |->
        IF f \notin DOMAIN raw THEN "Offer" ELSE ParseField(f, raw[f][1])]

\* TenderUpdate accepts the body: every field is optional and may be null
TenderUpdateValid(raw) ==
    \A f \in PayloadFields \cap DOMAIN raw :
        raw[f] = None \/ FieldValid(f, raw[f][1])

\* TenderUpdate with extra keys allowed: the keys of the body it does not
\* declare are kept
TenderUpdateAllowExtra(raw) ==
    [f \in PayloadFields \cup DOMAIN raw |->
        IF f \in DOMAIN raw /\ raw[f] # None
        THEN Some(ParseField(f, raw[f][1])) ELSE None]

\* TenderUpdate(**raw).dict(): a key of the model for every field, None when
\* the body has no value for it; keys the model does not declare are dropped
TenderUpdate(raw) ==
    [f \in PayloadFields |->
        IF f \in DOMAIN raw /\ raw[f] # None
        THEN Some(ParseField(f, raw[f][1])) ELSE None]

\* uuid.uuid4(): a value no earlier call returned
Uuid4(n) == n + 1

\* Tender(**d) with the default factories of id, created_at and updated_at
Tender(d, id, createdAt, updatedAt) ==
    Merge([f \in PayloadFields |-> ParseField(f, d[f])],
          [id |-> id, created_at |-> createdAt, updated_at |-> updatedAt])

\* the dictionary create_tender hands to insert_one, as the store keeps it
Document(obj, oid) ==
    Merge([f \in PayloadFields |-> IsoField(f, obj[f])],
          [_id |-> oid, id |-> obj.id,
           created_at |-> BsonEncodeDatetime(obj.created_at),
           updated_at |-> BsonEncodeDatetime(obj.updated_at)])

\* a document read from the store, its dates parsed, as Tender(**doc)
TenderOf(doc) ==
    Merge([f \in PayloadFields |-> FromIsoField(f, doc[f])],
          [id |-> doc.id,
           created_at |-> BsonDecodeDatetime(doc.created_at),
           updated_at |-> BsonDecodeDatetime(doc.updated_at)])

\* ------------------------------------------------------------------ inputs
Date1 == <<2024, 1, 1>>

Date2 == <<2024, 2, 29>>

Due1 == <<2024, 1, 15, 10, 0, 0>>

Due2 == <<2024, 3, 1, 9, 30, 0, 250>>

\* a create body with every required field and no status
BasePayload ==
    [item |-> Some("Widget"), customer |-> Some("Acme"), tender_name |-> Some("T1"),
     start_date |-> Some(Date1), expiry_date |-> Some(Date2), due_date |-> Some(Due1),
     deal_value |-> Some(1000), priority |-> Some("Medium"),
     assigned_sales_rep |-> Some("Ann")]

ValidCreateInputs == {BasePayload}

InvalidCreateInputs ==
    {Merge(BasePayload, [status |-> Some("InvalidStatus")]),
     Merge(BasePayload, [priority |-> Some("Urgent")]),
     [f \in DOMAIN BasePayload \ {"item"} |-> BasePayload[f]]}

CreateInputs == ValidCreateInputs \cup InvalidCreateInputs

EmptyPayload == [f \in {} |-> None]

ValidUpdateInputs ==
    {EmptyPayload,
     [id |-> Some(99), priority |-> Some("High"), tender_name |-> None],
     [status |-> Some("Lost"), customer |-> Some(""), priority |-> Some("Low"),
      start_date |-> Some(Date2), due_date |-> Some(Due2)]}

InvalidUpdateInputs ==
    {[status |-> Some("InvalidStatus"), priority |-> Some("High")]}

UpdateInputs == ValidUpdateInputs \cup InvalidUpdateInputs

\* the ids a request names: those create_tender can issue
RequestIds == 1..MaxCreates

\* the query parameters of GET /tenders: status, priority, customer
FilterInputs ==
    {<<None, None, None>>,
     <<None, None, Some("Acme")>>,
     <<None, None, Some("")>>,
     <<Some("Offer"), Some("Medium"), Some("Acme")>>,
     <<Some(""), Some("High"), None>>}

\* ------------------------------------------------------------------ state
VARIABLES
    store,      \* db.tenders: the documents, in insertion order
    uuidCount,  \* how many values uuid4 has returned
    oidCount,   \* how many _id values the store has assigned
    now,        \* the last reading of datetime.utcnow()
    pending,    \* the bag of update_tender calls between update_one and find_one
    deleted,    \* the ids for which delete_tender has succeeded
    last        \* the handler step taken last and the response it ended with

vars == <<store, uuidCount, oidCount, now, pending, deleted, last>>

\* a handler step: the handler, the store call it made, the HTTP status (0 while
\* the call has not ended), the id and the body or query it was given, and the
\* tenders it returned
Response(op, phase, code, id, payload, body) ==
    [op |-> op, phase |-> phase, code |-> code, id |-> id, payload |-> payload,
     body |-> body]

\* an update_tender call that awaits its find_one: its arguments and the
\* updated_at it wrote
Call(id, raw, t) == [id |-> id, payload |-> raw, at |-> BsonEncodeDatetime(t)]

\* index of the first document with this id, 0 when there is none
FindIndex(docs, id) ==
    IF \E i \in DOMAIN docs : docs[i].id = id
    THEN CHOOSE i \in DOMAIN docs :
            docs[i].id = id /\ \A j \in 1..(i - 1) : docs[j].id # id
    ELSE 0

RemoveAt(s, i) == [j \in 1..(Len(s) - 1) |-> IF j < i THEN s[j] ELSE s[j + 1]]

Init ==
    /\ store = <<>>
    /\ uuidCount = 0
    /\ oidCount = 0
    /\ now = [ms |-> 0, us |-> 0]
    /\ pending = EmptyBag
    /\ deleted = {}
    /\ last = Response("none", "call", 0, 0, EmptyPayload, <<>>)

\* ------------------------------------------------------------------ handlers
\* POST /tenders
CreateTender(raw) ==
    IF ~TenderCreateValid(raw)
    THEN /\ last' = Response("create", "call", 422, 0, raw, <<>>)
         /\ UNCHANGED <<store, uuidCount, oidCount, now, pending, deleted>>
    ELSE /\ uuidCount < MaxCreates
         /\ \E t1, t2 \in Times :
              /\ TimeLeq(now, t1) /\ TimeLeq(t1, t2)
              /\ LET data == TenderCreate(raw)
                     tender_dict == [f \in PayloadFields |-> IsoField(f, data[f])]
                     tender_obj == Tender(tender_dict, Uuid4(uuidCount), t1, t2)
                 IN  /\ store' = Append(store, Document(tender_obj, oidCount + 1))
                     /\ last' = Response("create", "call", 200, tender_obj.id, raw,
                                         <<tender_obj>>)
              /\ now' = t2
         /\ uuidCount' = uuidCount + 1
         /\ oidCount' = oidCount + 1
         /\ UNCHANGED <<pending, deleted>>

\* `if status:` and its like: None and the empty string are both false
Truthy(param) == param # None /\ param[1] # ""

\* the query dictionary of get_tenders
Query(status, priority, customer) ==
    LET given == [status |-> status, priority |-> priority, customer |-> customer]
    IN  [k \in {k \in DOMAIN given : Truthy(given[k])} |-> given[k][1]]

\* Matches with the keys of the query joined by $or
MatchesAny(doc, query) == DOMAIN query = {} \/ \E k \in DOMAIN query : doc[k] = query[k]

\* a document matches a query when it has the query's value in every key
Matches(doc, query) == \A k \in DOMAIN query : doc[k] = query[k]

\* db.tenders.find(query).to_list(n)
Find(docs, query, n) ==
    LET Hit(doc) == Matches(doc, query) IN Take(SelectSeq(docs, Hit), n)

\* GET /tenders
GetTenders(status, priority, customer) ==
    LET tenders == Find(store, Query(status, priority, customer), ListCap)
    IN  /\ last' = Response("list", "call", 200, 0,
                            [status |-> status, priority |-> priority,
                             customer |-> customer],
                            [i \in DOMAIN tenders |-> TenderOf(tenders[i])])
        /\ UNCHANGED <<store, uuidCount, oidCount, now, pending, deleted>>

\* GET /tenders/{tender_id}
GetTender(tender_id) ==
    LET i == FindIndex(store, tender_id)
    IN  /\ last' = IF i = 0
                   THEN Response("get", "call", 404, tender_id, EmptyPayload, <<>>)
                   ELSE Response("get", "call", 200, tender_id, EmptyPayload,
                                 <<TenderOf(store[i])>>)
        /\ UNCHANGED <<store, uuidCount, oidCount, now, pending, deleted>>

\* UpdateData that stamps created_at as well
UpdateDataStampsCreated(raw, t) ==
    LET data == TenderUpdate(raw)
    IN  Merge([f \in {f \in DOMAIN data : data[f] # None} |-> IsoField(f, data[f][1])],
              [created_at |-> BsonEncodeDatetime(t), updated_at |-> BsonEncodeDatetime(t)])

\* the $set document of update_tender
UpdateData(raw, t) ==
    LET data == TenderUpdate(raw)
    IN  Merge([f \in {f \in DOMAIN data : data[f] # None} |-> IsoField(f, data[f][1])],
              [updated_at |-> BsonEncodeDatetime(t)])

\* update_one with upsert=True: a document is inserted when none matches
UpdateOneUpsert(docs, id, update_data) ==
    LET i == FindIndex(docs, id)
    IN  IF i = 0 THEN Append(docs, Merge([id |-> id], update_data))
        ELSE [docs EXCEPT ![i] = Merge(docs[i], update_data)]

\* update_one(filter, {"$set": update_data}): the first match is modified and
\* nothing is inserted when there is none
UpdateOne(docs, id, update_data) ==
    LET i == FindIndex(docs, id)
    IN  IF i = 0 THEN docs ELSE [docs EXCEPT ![i] = Merge(docs[i], update_data)]

\* PUT /tenders/{tender_id}, up to the answer of update_one
UpdateTender(tender_id, raw) ==
    IF ~TenderUpdateValid(raw)
    THEN /\ last' = Response("update", "update_one", 422, tender_id, raw, <<>>)
         /\ UNCHANGED <<store, uuidCount, oidCount, now, pending, deleted>>
    ELSE \E t \in Times :
           /\ TimeLeq(now, t)
           /\ now' = t
           /\ store' = UpdateOne(store, tender_id, UpdateData(raw, t))
           /\ IF FindIndex(store, tender_id) = 0
              THEN /\ last' = Response("update", "update_one", 404, tender_id, raw, <<>>)
                   /\ UNCHANGED pending
              ELSE /\ BagCardinality(pending) < MaxReqs
                   /\ pending' = pending (+) SetToBag({Call(tender_id, raw, t)})
                   /\ last' = Response("update", "update_one", 0, tender_id, raw, <<>>)
           /\ UNCHANGED <<uuidCount, oidCount, deleted>>

\* PUT /tenders/{tender_id}, from find_one on: a None answer has no .get
UpdateTenderRefetch(call) ==
    LET i == FindIndex(store, call.id)
    IN  /\ last' = IF i = 0
                   THEN Response("update", "find_one", 500, call.id, call, <<>>)
                   ELSE Response("update", "find_one", 200, call.id, call,
                                 <<TenderOf(store[i])>>)
        /\ pending' = pending (-) SetToBag({call})
        /\ UNCHANGED <<store, uuidCount, oidCount, now, deleted>>

\* delete_many with an empty filter once the id is known to exist
DeleteEvery(docs, id) ==
    LET i == FindIndex(docs, id) IN IF i = 0 THEN docs ELSE <<>>

\* delete_one(filter): the first match is removed
DeleteOne(docs, id) ==
    LET i == FindIndex(docs, id) IN IF i = 0 THEN docs ELSE RemoveAt(docs, i)

\* DELETE /tenders/{tender_id}
DeleteTender(tender_id) ==
    /\ store' = DeleteOne(store, tender_id)
    /\ IF FindIndex(store, tender_id) = 0
       THEN /\ last' = Response("delete", "call", 404, tender_id, EmptyPayload, <<>>)
            /\ UNCHANGED deleted
       ELSE /\ last' = Response("delete", "call", 200, tender_id, EmptyPayload, <<>>)
            /\ deleted' = deleted \cup {tender_id}
    /\ UNCHANGED <<uuidCount, oidCount, now, pending>>

Create == \E raw \in CreateInputs : CreateTender(raw)

List == \E q \in FilterInputs : GetTenders(q[1], q[2], q[3])

Get == \E id \in RequestIds : GetTender(id)

Update == \E id \in RequestIds, raw \in UpdateInputs : UpdateTender(id, raw)

Refetch == \E call \in BagToSet(pending) : UpdateTenderRefetch(call)

Delete == \E id \in RequestIds : DeleteTender(id)

Next == Create \/ List \/ Get \/ Update \/ Refetch \/ Delete

Spec == Init /\ [][Next]_vars

\* ------------------------------------------------------------------ claims
StepIs(r, op, phase) == r.op = op /\ r.phase = phase

\* the value a field of a body has once pydantic has parsed it
Given(raw, f) == ParseField(f, raw[f][1])

\* the fields of the model that the body gives a value other than null
Present(raw) == {f \in PayloadFields \cap DOMAIN raw : raw[f] # None}

\* C1: the update_one of an accepted update_tender call changes, in the one
\* document it matches, the fields the payload gives a non-null value (to that
\* value) and updated_at, and nothing else in that document or in any other.
C1_UpdateFrame ==
    [][(StepIs(last', "update", "update_one") /\ last'.code = 0) =>
        LET raw == last'.payload
            i == FindIndex(store, last'.id)
        IN  /\ Len(store') = Len(store)
            /\ \A j \in DOMAIN store : j # i => store'[j] = store[j]
            /\ DOMAIN store'[i] = DOMAIN store[i]
            /\ \A f \in Present(raw) : TenderOf(store'[i])[f] = Given(raw, f)
            /\ \A k \in DOMAIN store[i] \ (Present(raw) \cup {"updated_at"}) :
                  store'[i][k] = store[i][k]]_vars

\* C1 witness: an update that gives priority alone, an unknown key and a null
\* has been applied to one of two records, and has moved its updated_at
C1_Witness ==
    /\ StepIs(last, "update", "update_one") /\ last.code = 0
    /\ Present(last.payload) = {"priority"}
    /\ Len(store) = 2
    /\ \E i \in DOMAIN store :
          /\ store[i].id = last.id
          /\ store[i].priority = "High"
          /\ store[i].updated_at # store[i].created_at

\* C2: get_tender, update_tender and delete_tender called with an id that no
\* stored record has end with 404 and leave the store as it was.
C2_NotFound ==
    [][((StepIs(last', "get", "call") \/ StepIs(last', "delete", "call")
            \/ (StepIs(last', "update", "update_one") /\ last'.code # 422))
        /\ FindIndex(store, last'.id) = 0)
       => (last'.code = 404 /\ store' = store)]_vars

\* C2 witness: an update with a payload that sets fields has ended with 404
\* while another record is stored
C2_Witness ==
    /\ StepIs(last, "update", "update_one") /\ last.code = 404
    /\ Present(last.payload) # {}
    /\ Len(store) = 1
    /\ store[1].id # last.id

\* C3: an update_tender call whose payload is accepted ends with the tender
\* (200) or with not-found (404), whatever delete_tender does meanwhile.
C3_UpdateEndsFoundOrNotFound ==
    (last.op = "update" /\ last.code \notin {0, 422}) => last.code \in {200, 404}

\* C4: no two stored records have the same id, and a stored record keeps its
\* id for as long as it is stored. (The first state stores nothing.)
C4_IdUniqueImmutable ==
    [][/\ \A i, j \in DOMAIN store' : store'[i].id = store'[j].id => i = j
       /\ \A i \in DOMAIN store, j \in DOMAIN store' :
             store[i]._id = store'[j]._id => store[i].id = store'[j].id]_vars

\* C4 witness: two records are stored and an update whose body carries an id
\* key has been applied to one of them
C4_Witness ==
    /\ Len(store) = 2
    /\ StepIs(last, "update", "update_one") /\ last.code = 0
    /\ "id" \in DOMAIN last.payload
    /\ last.payload["id"] # Some(last.id)

\* a body gives status or priority a value outside the enumeration
OutOfEnum(raw) ==
    \/ "status" \in DOMAIN raw /\ raw["status"] # None
          /\ raw["status"][1] \notin TenderStatus
    \/ "priority" \in DOMAIN raw /\ raw["priority"] # None
          /\ raw["priority"][1] \notin PriorityLevel

\* C5: every stored record has a status and a priority of the enumerations,
\* and a create or update whose body gives either a value outside them ends
\* with 422 and leaves the store as it was. (The first state stores nothing.)
C5_EnumsOnly ==
    [][/\ \A i \in DOMAIN store' :
             store'[i].status \in TenderStatus /\ store'[i].priority \in PriorityLevel
       /\ ((StepIs(last', "create", "call") \/ StepIs(last', "update", "update_one"))
           /\ OutOfEnum(last'.payload))
          => (last'.code = 422 /\ store' = store)]_vars

\* C5 witness: an update of a stored record with an invalid status was refused
C5_Witness ==
    /\ StepIs(last, "update", "update_one") /\ last.code = 422
    /\ OutOfEnum(last.payload)
    /\ \E i \in DOMAIN store : store[i].id = last.id

\* C6: the record create_tender returns has created_at = updated_at.
C6_CreatedEqualsUpdated ==
    (last.op = "create" /\ last.code = 200) =>
        last.body[1].created_at = last.body[1].updated_at

\* C7: get_tender called right after create_tender, with the id it returned,
\* returns the three dates of the payload and, field for field, the record
\* that create_tender returned.
C7_CreateGetRoundTrip ==
    [][(last.op = "create" /\ last.code = 200 /\ last'.op = "get" /\ last'.id = last.id)
       => /\ last'.code = 200
          /\ \A f \in DateFields \cup {"due_date"} :
                last'.body[1][f] = Given(last.payload, f)
          /\ last'.body = last.body]_vars

\* the documents that have, for each key of `keys` the query gives, its value
Selected(docs, given, keys) ==
    {i \in DOMAIN docs : \A k \in keys : docs[i][k] = given[k][1]}

\* C8 as claimed: get_tenders returns exactly the stored records that equal
\* the supplied value in every supplied filter.
C8_ListSupplied ==
    last.op = "list" =>
        LET sel == Selected(store, last.payload,
                            {k \in DOMAIN last.payload : last.payload[k] # None})
        IN  /\ Range(last.body) = {TenderOf(store[i]) : i \in sel}
            /\ Len(last.body) = Cardinality(sel)

\* C8 amended: get_tenders returns exactly the stored records that equal the
\* supplied value in every filter supplied with a non-empty value; a filter
\* supplied as the empty string is not applied.
C8_ListNonEmpty ==
    last.op = "list" =>
        LET sel == Selected(store, last.payload,
                            {k \in DOMAIN last.payload :
                                last.payload[k] # None /\ last.payload[k][1] # ""})
        IN  /\ Range(last.body) = {TenderOf(store[i]) : i \in sel}
            /\ Len(last.body) = Cardinality(sel)

\* C8 witness: three filters were supplied and selected one of two records
C8_Witness ==
    /\ last.op = "list"
    /\ \A k \in DOMAIN last.payload : last.payload[k] # None /\ last.payload[k][1] # ""
    /\ Len(store) = 2
    /\ Len(last.body) = 1

\* C9: once delete_tender has succeeded for an id, no record has that id,
\* create_tender never issues it again, and a get_tender, update_tender or
\* delete_tender called with it ends with 404; a delete_tender that succeeds
\* removes the record of its id and leaves every other record as it was.
C9_HardDelete ==
    [][/\ \A id \in deleted' : FindIndex(store', id) = 0
       /\ (StepIs(last', "create", "call") /\ last'.code = 200) => last'.id \notin deleted
       /\ ((StepIs(last', "get", "call") \/ StepIs(last', "delete", "call")
              \/ (StepIs(last', "update", "update_one") /\ last'.code # 422))
           /\ last'.id \in deleted) => last'.code = 404
       /\ (StepIs(last', "delete", "call") /\ last'.code = 200) =>
            /\ last'.id \in deleted'
            /\ Len(store') = Len(store) - 1
            /\ \A i \in DOMAIN store :
                  store[i].id # last'.id => \E j \in DOMAIN store' : store'[j] = store[i]
      ]_vars

\* C9 witness: a second delete of a deleted id has ended with 404 while
\* another record is still stored
C9_Witness ==
    /\ StepIs(last, "delete", "call") /\ last.code = 404
    /\ last.id \in deleted
    /\ Len(store) = 1

\* C10: the record an update_tender call returns has the payload's value in
\* every field the payload gives, and the updated_at that the call wrote.
C10_ReturnsOwnUpdate ==
    (StepIs(last, "update", "find_one") /\ last.code = 200) =>
        LET call == last.payload
        IN  /\ \A f \in Present(call.payload) :
                  last.body[1][f] = Given(call.payload, f)
            /\ last.body[1].updated_at = BsonDecodeDatetime(call.at)

====
